---- MODULE Spec2Model ----
(***************************************************************************)
(* The WER report run of scripts/calc_wer.py: main() reads a table of      *)
(* (file_path, target, prediction) rows, selects one text normalizer,      *)
(* aligns every row with jiwer.process_words, folds the per-sample counts  *)
(* into ncor/nsub/nins/ndel and writes the per-sample blocks followed by   *)
(* the "(Average)" block.                                                  *)
(*                                                                         *)
(* A text is modelled as the sequence of its whitespace-separated tokens.  *)
(* jiwer is a third-party library whose code is not part of the            *)
(* repository: the alignment is modelled from section 4.2 of the design    *)
(* (a minimum-edit-distance alignment), and the choice among several       *)
(* optimal alignments is left open.                                        *)
(***************************************************************************)
EXTENDS Integers, Sequences, FiniteSets, TLC

\* ------------------------------------------------------------------ bounds
MaxRows == 2      \* rows of the input table
MaxWords == 4     \* size of the whole table: its raw tokens (targets and
                  \* predictions), a row cut short counting as one
MaxSeqLen == 3    \* raw tokens of one field when a single pair is aligned
MaxInstances == 2 \* BenchmarkConfig instances constructed in one run
MaxComponents == 2 \* comma-separated names in one services argument

\* ------------------------------------------------------------ input space
\* Raw tokens: the same word in two letter cases.  None of them holds one of
\* the characters the "None" policy deletes.
RawWords == {"a", "A"}

\* --text_normalizer choices (make_argparse) and a selector outside them,
\* which a direct caller of main() can pass.
Policies == {"None", "Whisper", "English"}
PolicyInputs == Policies \cup {"Other"}

Texts(k) == UNION {[1..n -> RawWords] : n \in 0..k}

RECURSIVE Tables(_, _)
\* the tables of n rows of size at most w; row k has file_path k.  A row
\* with short = TRUE has fewer cells than the largest required column index.
Tables(n, w) ==
    IF n = 0 THEN {<<>>}
    ELSE UNION { { Append(t, [file_path |-> n, target |-> p[1], prediction |-> p[2],
                              short |-> FALSE])
                   : t \in Tables(n - 1, w - Len(p[1]) - Len(p[2])) }
                 : p \in {q \in Texts(w) \X Texts(w) : Len(q[1]) + Len(q[2]) <= w} }
         \cup (IF w = 0 THEN {}
               ELSE { Append(t, [file_path |-> n, target |-> <<>>, prediction |-> <<>>,
                                 short |-> TRUE])
                      : t \in Tables(n - 1, w - 1) })

\* the one-row tables whose fields hold at most k raw tokens each
PairTables(k) ==
    { <<[file_path |-> 1, target |-> r, prediction |-> h, short |-> FALSE]>>
      : <<r, h>> \in Texts(k) \X Texts(k) }
    \cup { <<[file_path |-> 1, target |-> <<>>, prediction |-> <<>>, short |-> TRUE]>> }

\* ------------------------------------------------------------------ state
VARIABLES
    text_normalizer,  \* args.text_normalizer
    data,             \* rows read by read_tsv
    pc,               \* "start", "loop", "done", "error"
    err,              \* the exception main() ended with, or "none"
    tn,               \* the selected normalizer, "unset" before selection
    i,                \* rows the for loop has completed
    ncor, nsub, nins, ndel,   \* aggregate accumulators
    ref, hyp,         \* the normalized target and prediction of the current row
    result,           \* the last jiwer.process_words result
    output_str,       \* the report's entries, in order
    outputfile        \* what was written to args.outputfile, or NoFile

vars == <<text_normalizer, data, pc, err, tn, i, ncor, nsub, nins, ndel,
          ref, hyp, result, output_str, outputfile>>

\* the service registry of stt_benchmark/services.py and the configuration
\* singleton of stt_benchmark/config.py
VARIABLES
    environ,          \* os.environ: the variables set to a non-empty value
    dotenv,           \* the .env file: the variables set to a non-empty value
    _config,          \* config._config: NoConfig (None) or a BenchmarkConfig
    created,          \* BenchmarkConfig instances constructed so far
    call              \* the last call of the public API and its outcome

svars == <<environ, dotenv, _config, created, call>>

NoResult == [hits |-> 0, substitutions |-> 0, insertions |-> 0, deletions |-> 0,
             ops |-> <<>>, wer |-> [num |-> 0, den |-> 1], set |-> FALSE]
NoFile == <<[kind |-> "nofile"]>>

\* ------------------------------------------------------------- normalizer
Lower(w) == IF w = "A" THEN "a" ELSE w

\* tn(s): the "None" lambda deletes a fixed set of quote/dash characters and
\* "..." (none occurs in RawWords); the Whisper and English normalizers
\* lowercase the text.
ApplyTn(n, s) ==
    IF n = "None" THEN s
    ELSE [k \in 1..Len(s) |-> Lower(s[k])]

SelectNormalizerFallback(p) == IF p \in Policies THEN p ELSE "Whisper"

\* lines 33-41: the normalizer for a policy, or "error" (ValueError)
SelectNormalizer(p) ==
    IF p = "Whisper" THEN "Whisper"
    ELSE IF p = "English" THEN "English"
    ELSE IF p = "None" THEN "None"
    ELSE "error"

\* --------------------------------------------------------------- alignment
Diag(r, h) == IF r = h THEN "equal" ELSE "substitute"

RECURSIVE Aligns(_, _)
\* every alignment of ref with hyp: a sequence of operations that consumes
\* both sequences from left to right
Aligns(rs, hs) ==
    IF rs = <<>> /\ hs = <<>> THEN {<<>>}
    ELSE (IF rs # <<>> /\ hs # <<>>
            THEN {<<Diag(Head(rs), Head(hs))>> \o a : a \in Aligns(Tail(rs), Tail(hs))}
            ELSE {})
         \cup (IF rs # <<>>
            THEN {<<"delete">> \o a : a \in Aligns(Tail(rs), hs)}
            ELSE {})
         \cup (IF hs # <<>>
            THEN {<<"insert">> \o a : a \in Aligns(rs, Tail(hs))}
            ELSE {})

Count(ops, t) == Cardinality({k \in 1..Len(ops) : ops[k] = t})
Errors(ops) == Count(ops, "substitute") + Count(ops, "insert") + Count(ops, "delete")

\* the alignments with the fewest errors
MinAligns(rs, hs) ==
    LET all == Aligns(rs, hs)
    IN {a \in all : \A b \in all : Errors(a) <= Errors(b)}

\* result.wer for an empty reference is outside the documented formula:
\* zero, or the number of insertions, depending on the library's convention
EmptyRefWer(ops) == {[num |-> 0, den |-> 1], [num |-> Count(ops, "insert"), den |-> 1]}

\* jiwer.process_words(ref, hyp): the results it can return
process_words(rs, hs) ==
    { [hits |-> Count(a, "equal"),
       substitutions |-> Count(a, "substitute"),
       insertions |-> Count(a, "insert"),
       deletions |-> Count(a, "delete"),
       ops |-> a,
       wer |-> w,
       set |-> TRUE]
      : <<a, w>> \in UNION { {<<a, w>> : w \in
                     IF Len(rs) > 0
                       THEN {[num |-> Errors(a), den |-> Len(rs)]}
                       ELSE EmptyRefWer(a)} : a \in MinAligns(rs, hs) } }

\* jiwer.process_words raises on an empty reference in the releases that
\* reject empty reference strings
process_words_raises(rs, hs) == Len(rs) = 0

\* line 58
NormRef(n, row) == ApplyTn(n, row.target)

NormHypRaw(n, row) == row.prediction

\* line 59
NormHyp(n, row) == ApplyTn(n, row.prediction)

AlignRowSwapped(n, row) ==
    process_words(NormHyp(n, row), NormRef(n, row))

AlignRowSameColumn(n, row) ==
    process_words(NormRef(n, row), NormRef(n, row))

\* lines 58-61: normalize both fields with tn and align them
AlignRow(n, row) ==
    process_words(NormRef(n, row), NormHyp(n, row))

\* -------------------------------------------------------------- the report
\* f"{x * 100:.1f}%": the percentage in tenths, rounded to the nearest
FormatPercent(w) == (2 * 1000 * w.num + w.den) \div (2 * w.den)

Counters == [ncor |-> ncor, nsub |-> nsub, nins |-> nins, ndel |-> ndel]
ZeroCounters == [ncor |-> 0, nsub |-> 0, nins |-> 0, ndel |-> 0]

FoldOverwrite(c, r) ==
    [ncor |-> r.hits, nsub |-> r.substitutions,
     nins |-> r.insertions, ndel |-> r.deletions]

RowIsShortNever(row) == FALSE

\* line 56: values = {c: row[i] ...} raises IndexError on a row with fewer
\* cells than a required column index
RowIsShort(row) == row.short

\* lines 63-66: the four += of the loop body
Fold(c, r) ==
    [ncor |-> c.ncor + r.hits, nsub |-> c.nsub + r.substitutions,
     nins |-> c.nins + r.insertions, ndel |-> c.ndel + r.deletions]

WordCountWithInsertions(c) == c.ncor + c.nsub + c.nins

\* line 79
WordCount(c) == c.ncor + c.nsub + c.ndel

\* line 80
PooledWer(c) ==
    IF WordCount(c) > 0
      THEN [num |-> c.nsub + c.nins + c.ndel, den |-> WordCount(c)]
      ELSE [num |-> 0, den |-> 1]

\* lines 68-74: identifier line, WER line, alignment lines
SampleBlock(row, r) ==
    [kind |-> "sample", file_path |-> row.file_path,
     wer |-> FormatPercent(r.wer), vis |-> r.ops]

PrependBlock(out, b) == <<b>> \o out

\* line 76
AppendBlock(out, b) == Append(out, b)

\* lines 81-83
AverageBlock(c) ==
    << [kind |-> "average"],
       [kind |-> "wordcount", n |-> WordCount(c)],
       [kind |-> "wer", wer |-> FormatPercent(PooledWer(c))] >>

\* no call of the service API was made
NoCall == [op |-> "none", arg |-> <<>>, ret |-> <<>>, exc |-> "", detail |-> "",
           factory_calls |-> 0, factory_args |-> <<>>]
\* config.py line 90: _config is None
NoConfig == [id |-> 0, attrs |-> <<>>]

SvcIdle ==
    /\ environ = <<>>
    /\ dotenv = <<>>
    /\ _config = NoConfig
    /\ created = 0
    /\ call = NoCall

\* ------------------------------------------------------------------ actions
Init ==
    /\ text_normalizer \in PolicyInputs
    /\ data \in UNION {Tables(n, MaxWords) : n \in 0..MaxRows}
    /\ pc = "start"
    /\ err = "none"
    /\ tn = "unset"
    /\ i = 0
    /\ ncor = 0 /\ nsub = 0 /\ nins = 0 /\ ndel = 0
    /\ ref = <<>> /\ hyp = <<>>
    /\ result = NoResult
    /\ output_str = <<>>
    /\ outputfile = NoFile
    /\ SvcIdle

\* lines 30-53: select the normalizer, zero the accumulators
Setup ==
    /\ pc = "start"
    /\ IF SelectNormalizer(text_normalizer) = "error"
         THEN /\ pc' = "error"
              /\ err' = "ValueError: Unknown text normalizer option"
              /\ tn' = tn
         ELSE /\ pc' = "loop"
              /\ err' = err
              /\ tn' = SelectNormalizer(text_normalizer)
    /\ UNCHANGED <<text_normalizer, data, i, ncor, nsub, nins, ndel,
                   ref, hyp, result, output_str, outputfile>>
    /\ UNCHANGED svars

\* line 56: row[i] for a column index past the row's last cell; no handler
ProcessRowMissingField ==
    /\ pc = "loop"
    /\ i < Len(data)
    /\ RowIsShort(data[i + 1])
    /\ pc' = "error"
    /\ err' = "IndexError: list index out of range"
    /\ UNCHANGED <<text_normalizer, data, tn, i, ncor, nsub, nins, ndel,
                   ref, hyp, result, output_str, outputfile>>
    /\ UNCHANGED svars

\* lines 55-76: one iteration of the loop, jiwer.process_words returning
ProcessRow ==
    /\ pc = "loop"
    /\ i < Len(data)
    /\ ~RowIsShort(data[i + 1])
    /\ ref' = NormRef(tn, data[i + 1])
    /\ hyp' = NormHyp(tn, data[i + 1])
    /\ \E r \in AlignRow(tn, data[i + 1]) :
         LET c == Fold(Counters, r)
         IN /\ result' = r
            /\ ncor' = c.ncor
            /\ nsub' = c.nsub
            /\ nins' = c.nins
            /\ ndel' = c.ndel
            /\ output_str' = AppendBlock(output_str, SampleBlock(data[i + 1], r))
    /\ i' = i + 1
    /\ UNCHANGED <<text_normalizer, data, pc, err, tn, outputfile>>
    /\ UNCHANGED svars

\* lines 55-61: jiwer.process_words raising; main() has no handler
ProcessRowRaises ==
    /\ pc = "loop"
    /\ i < Len(data)
    /\ ~RowIsShort(data[i + 1])
    /\ process_words_raises(NormRef(tn, data[i + 1]), NormHyp(tn, data[i + 1]))
    /\ ref' = NormRef(tn, data[i + 1])
    /\ hyp' = NormHyp(tn, data[i + 1])
    /\ pc' = "error"
    /\ err' = "ValueError: one or more references are empty strings"
    /\ UNCHANGED <<text_normalizer, data, tn, i, ncor, nsub, nins, ndel,
                   result, output_str, outputfile>>
    /\ UNCHANGED svars

\* lines 78-90: the aggregate block, then the file is written
Aggregate ==
    /\ pc = "loop"
    /\ i = Len(data)
    /\ output_str' = output_str \o AverageBlock(Counters)
    /\ outputfile' = output_str'
    /\ pc' = "done"
    /\ UNCHANGED <<text_normalizer, data, err, tn, i, ncor, nsub, nins, ndel,
                   ref, hyp, result>>
    /\ UNCHANGED svars

Next == Setup \/ ProcessRowMissingField \/ ProcessRow \/ ProcessRowRaises \/ Aggregate

Spec == Init /\ [][Next]_<<vars, svars>>

\* the same run over a single pair of longer fields
InitAlign ==
    /\ text_normalizer \in PolicyInputs
    /\ data \in PairTables(MaxSeqLen)
    /\ pc = "start"
    /\ err = "none"
    /\ tn = "unset"
    /\ i = 0
    /\ ncor = 0 /\ nsub = 0 /\ nins = 0 /\ ndel = 0
    /\ ref = <<>> /\ hyp = <<>>
    /\ result = NoResult
    /\ output_str = <<>>
    /\ outputfile = NoFile
    /\ SvcIdle

SpecAlign == InitAlign /\ [][Next]_<<vars, svars>>

\* ------------------------------------------------------- service registry
\* the enum with the member of models.py line 23 switched on
ServiceNameWithFlux ==
    {"assemblyai", "assemblyai_u3pro_streaming", "aws", "azure", "cartesia",
     "deepgram", "deepgram_flux", "elevenlabs", "elevenlabs_http", "fal",
     "gladia", "google", "gradium", "groq", "hathora", "nvidia", "openai",
     "openai_realtime", "sambanova", "sarvam", "soniox", "speechmatics",
     "whisper"}

\* models.py lines 14-39: the values of the ServiceName enum
ServiceName ==
    {"assemblyai", "assemblyai_u3pro_streaming", "aws", "azure", "cartesia",
     "deepgram", "elevenlabs", "elevenlabs_http", "fal", "gladia", "google",
     "gradium", "groq", "hathora", "nvidia", "openai", "openai_realtime",
     "sambanova", "sarvam", "soniox", "speechmatics", "whisper"}

Entry(n, f, req, aio) ==
    [name |-> n, factory |-> f, required_env_vars |-> req, needs_aiohttp |-> aio]

\* services.py lines 355-445: the entries of STT_SERVICES in dictionary order
ServiceEntries ==
    << Entry("assemblyai", "create_assemblyai", <<"ASSEMBLYAI_API_KEY">>, FALSE),
       Entry("assemblyai_u3pro_streaming", "create_assemblyai_u3pro_streaming",
             <<"ASSEMBLYAI_API_PRIVATE_KEY">>, FALSE),
       Entry("aws", "create_aws",
             <<"AWS_ACCESS_KEY_ID", "AWS_SECRET_ACCESS_KEY", "AWS_REGION">>, FALSE),
       Entry("azure", "create_azure",
             <<"AZURE_SPEECH_API_KEY", "AZURE_SPEECH_REGION">>, FALSE),
       Entry("cartesia", "create_cartesia", <<"CARTESIA_API_KEY">>, FALSE),
       Entry("deepgram", "create_deepgram", <<"DEEPGRAM_API_KEY">>, FALSE),
       Entry("elevenlabs", "create_elevenlabs", <<"ELEVENLABS_API_KEY">>, FALSE),
       Entry("elevenlabs_http", "create_elevenlabs_http",
             <<"ELEVENLABS_API_KEY">>, TRUE),
       Entry("fal", "create_fal", <<"FAL_KEY">>, FALSE),
       Entry("gladia", "create_gladia", <<"GLADIA_API_KEY">>, FALSE),
       Entry("google", "create_google", <<"GOOGLE_APPLICATION_CREDENTIALS">>, FALSE),
       Entry("gradium", "create_gradium", <<"GRADIUM_API_KEY">>, FALSE),
       Entry("groq", "create_groq", <<"GROQ_API_KEY">>, FALSE),
       Entry("hathora", "create_hathora", <<"HATHORA_API_KEY">>, FALSE),
       Entry("nvidia", "create_nvidia", <<"NVIDIA_API_KEY">>, FALSE),
       Entry("openai", "create_openai", <<"OPENAI_API_KEY">>, FALSE),
       Entry("openai_realtime", "create_openai_realtime", <<"OPENAI_API_KEY">>, FALSE),
       Entry("sambanova", "create_sambanova", <<"SAMBANOVA_API_KEY">>, FALSE),
       Entry("sarvam", "create_sarvam", <<"SARVAM_API_KEY">>, FALSE),
       Entry("soniox", "create_soniox", <<"SONIOX_API_KEY">>, FALSE),
       Entry("speechmatics", "create_speechmatics", <<"SPEECHMATICS_API_KEY">>, FALSE),
       Entry("whisper", "create_whisper", <<>>, FALSE) >>

\* the keys of STT_SERVICES in iteration order
ServiceKeys == [k \in 1..Len(ServiceEntries) |-> ServiceEntries[k].name]

Range(s) == {s[k] : k \in 1..Len(s)}

STT_SERVICES ==
    [n \in Range(ServiceKeys) |->
        ServiceEntries[CHOOSE k \in 1..Len(ServiceEntries) : ServiceEntries[k].name = n]]

\* services.py lines 81-345: the variables each factory reads with _get_env, in
\* the order its keyword arguments are evaluated
FactoryGetEnv ==
    [f \in {ServiceEntries[k].factory : k \in 1..Len(ServiceEntries)} |->
        CASE f = "create_assemblyai" -> <<"ASSEMBLYAI_API_KEY">>
          [] f = "create_assemblyai_u3pro_streaming" -> <<"ASSEMBLYAI_API_PRIVATE_KEY">>
          [] f = "create_aws" ->
                <<"AWS_SECRET_ACCESS_KEY", "AWS_ACCESS_KEY_ID", "AWS_REGION">>
          [] f = "create_azure" -> <<"AZURE_SPEECH_API_KEY", "AZURE_SPEECH_REGION">>
          [] f = "create_cartesia" -> <<"CARTESIA_API_KEY">>
          [] f = "create_deepgram" -> <<"DEEPGRAM_API_KEY">>
          [] f = "create_elevenlabs" -> <<"ELEVENLABS_API_KEY">>
          [] f = "create_elevenlabs_http" -> <<"ELEVENLABS_API_KEY">>
          [] f = "create_fal" -> <<"FAL_KEY">>
          [] f = "create_gladia" -> <<"GLADIA_API_KEY">>
          [] f = "create_google" -> <<"GOOGLE_APPLICATION_CREDENTIALS">>
          [] f = "create_gradium" -> <<"GRADIUM_API_KEY">>
          [] f = "create_groq" -> <<"GROQ_API_KEY">>
          [] f = "create_hathora" -> <<"HATHORA_API_KEY">>
          [] f = "create_nvidia" -> <<"NVIDIA_API_KEY">>
          [] f = "create_openai" -> <<"OPENAI_API_KEY">>
          [] f = "create_openai_realtime" -> <<"OPENAI_API_KEY">>
          [] f = "create_sambanova" -> <<"SAMBANOVA_API_KEY">>
          [] f = "create_sarvam" -> <<"SARVAM_API_KEY">>
          [] f = "create_soniox" -> <<"SONIOX_API_KEY">>
          [] f = "create_speechmatics" -> <<"SPEECHMATICS_API_KEY">>
          [] OTHER -> <<>>]

\* services.py line 168: the one factory with a positional parameter
FactoryParams(f) == IF f = "create_elevenlabs_http" THEN 1 ELSE 0

\* config.py lines 30-57: the aliases of the credential fields of BenchmarkConfig
ConfigFields ==
    {"ANTHROPIC_API_KEY", "ASSEMBLYAI_API_KEY", "ASSEMBLYAI_API_PRIVATE_KEY",
     "CARTESIA_API_KEY", "DEEPGRAM_API_KEY", "ELEVENLABS_API_KEY", "FAL_KEY",
     "GLADIA_API_KEY", "GOOGLE_API_KEY", "GOOGLE_APPLICATION_CREDENTIALS",
     "GRADIUM_API_KEY", "GROQ_API_KEY", "HATHORA_API_KEY", "NVIDIA_API_KEY",
     "OPENAI_API_KEY", "SAMBANOVA_API_KEY", "SARVAM_API_KEY", "SONIOX_API_KEY",
     "SPEECHMATICS_API_KEY", "AWS_ACCESS_KEY_ID", "AWS_SECRET_ACCESS_KEY",
     "AWS_REGION", "AZURE_SPEECH_API_KEY", "AZURE_SPEECH_REGION"}

\* ------------------------------------------------------------ configuration
None == "<None>"
Raised == "<raised>"

\* os.getenv(name, default)
Getenv(name, default) == IF name \in DOMAIN environ THEN environ[name] ELSE default

\* the value a variable has for the program: the process environment first,
\* the .env file second
Effective(name) ==
    IF name \in DOMAIN environ THEN environ[name]
    ELSE IF name \in DOMAIN dotenv THEN dotenv[name]
    ELSE ""

\* config.py lines 9-57: BenchmarkConfig() reads every credential field from the
\* process environment, then from the .env file, and defaults it to ""
BenchmarkConfig(n) == [id |-> n, attrs |-> [f \in ConfigFields |-> Effective(f)]]

IsNone(cfg) == cfg.id = 0

\* a get_config that constructs an instance on every call
get_config_uncached(cfg, n) ==
    [config |-> BenchmarkConfig(n + 1), created |-> n + 1]

\* config.py lines 93-98: the instance get_config returns and the number of
\* instances constructed after the call
get_config(cfg, n) ==
    IF IsNone(cfg)
        THEN [config |-> BenchmarkConfig(n + 1), created |-> n + 1]
        ELSE [config |-> cfg, created |-> n]

\* getattr(config, name.lower(), None)
Getattr(cfg, name) == IF name \in ConfigFields THEN cfg.attrs[name] ELSE None

\* a _get_env that reads the process environment only
_get_env_environ_only(cfg, name) ==
    IF Getenv(name, "") # "" THEN Getenv(name, "") ELSE Raised

\* services.py lines 35-49: the value returned, or Raised for the ValueError
_get_env(cfg, name) ==
    LET value == Getattr(cfg, name)
    IN  IF value \notin {None, ""} THEN value
        ELSE IF Getenv(name, "") # "" THEN Getenv(name, "")
        ELSE Raised

\* services.py lines 465-480
_get_env_from_config(cfg, name) ==
    LET value == Getattr(cfg, name)
    IN  IF value # None THEN value ELSE Getenv(name, "")

\* an availability test that accepts one set variable
is_service_available_any(cfg, name) ==
    /\ name \in DOMAIN STT_SERVICES
    /\ \E k \in 1..Len(STT_SERVICES[name].required_env_vars) :
           _get_env_from_config(cfg, STT_SERVICES[name].required_env_vars[k]) # ""

\* services.py lines 483-488
is_service_available(cfg, name) ==
    /\ name \in DOMAIN STT_SERVICES
    /\ \A k \in 1..Len(STT_SERVICES[name].required_env_vars) :
           _get_env_from_config(cfg, STT_SERVICES[name].required_env_vars[k]) # ""

\* ---------------------------------------------------------- service creation
Outcome(r, e, d, fc, fa, t) ==
    [ret |-> r, exc |-> e, detail |-> d, factory_calls |-> fc,
     factory_args |-> fa, touched |-> t]

\* services.py lines 81-345: one call of factory f with the positional
\* arguments args; the first _get_env that raises ends it
RunFactory(cfg, f, args) ==
    LET vs == FactoryGetEnv[f]
        failing == {k \in 1..Len(vs) : _get_env(cfg, vs[k]) = Raised}
        first == CHOOSE k \in failing : \A j \in failing : k <= j
    IN  IF Len(args) # FactoryParams(f)
            THEN Outcome(None, "TypeError", "", 1, args, FALSE)
        ELSE IF failing # {}
            THEN Outcome(None, "ValueError: environment variable not set",
                         vs[first], 1, args, TRUE)
        ELSE Outcome(f, "", "", 1, args, Len(vs) > 0)

\* a create_stt_service that hands a missing session on to the factory
create_stt_service_unchecked(cfg, service_name, aiohttp_session) ==
    IF service_name \notin DOMAIN STT_SERVICES
        THEN Outcome(None, "ValueError: Unknown service", service_name, 0, <<>>, FALSE)
    ELSE IF STT_SERVICES[service_name].needs_aiohttp
        THEN RunFactory(cfg, STT_SERVICES[service_name].factory, <<aiohttp_session>>)
    ELSE RunFactory(cfg, STT_SERVICES[service_name].factory, <<>>)

\* services.py lines 491-521 (get_service_definition: lines 453-457)
create_stt_service(cfg, service_name, aiohttp_session) ==
    IF service_name \notin DOMAIN STT_SERVICES
        THEN Outcome(None, "ValueError: Unknown service", service_name, 0, <<>>, FALSE)
    ELSE IF STT_SERVICES[service_name].needs_aiohttp
        THEN IF aiohttp_session = None
                THEN Outcome(None, "ValueError: requires an aiohttp session",
                             service_name, 0, <<>>, FALSE)
                ELSE RunFactory(cfg, STT_SERVICES[service_name].factory,
                                <<aiohttp_session>>)
    ELSE RunFactory(cfg, STT_SERVICES[service_name].factory, <<>>)

\* services.py lines 524-546: the available registry keys that are enum
\* values, in registry order
get_available_services(cfg) ==
    SelectSeq(ServiceKeys,
              LAMBDA n : is_service_available(cfg, n) /\ n \in ServiceName)

\* ------------------------------------------------------------------ parsing
\* A string is a sequence of pieces: a blank, a comma or a word.
LowerWord(w) ==
    CASE w = "AWS" -> "aws"
      [] w = "Whisper" -> "whisper"
      [] w = "ALL" -> "all"
      [] OTHER -> w

\* str.lower()
LowerStr(s) == [k \in 1..Len(s) |-> LowerWord(s[k])]

\* str.strip()
RECURSIVE Strip(_)
Strip(s) ==
    IF s = <<>> THEN s
    ELSE IF Head(s) = " " THEN Strip(Tail(s))
    ELSE IF s[Len(s)] = " " THEN Strip(SubSeq(s, 1, Len(s) - 1))
    ELSE s

\* str.split(",")
RECURSIVE Split(_)
Split(s) ==
    LET commas == {k \in 1..Len(s) : s[k] = ","}
        first == CHOOSE k \in commas : \A j \in commas : k <= j
    IN  IF commas = {} THEN <<s>>
        ELSE <<SubSeq(s, 1, first - 1)>> \o Split(SubSeq(s, first + 1, Len(s)))

\* ",".join(components)
RECURSIVE Join(_)
Join(cs) ==
    IF Len(cs) = 1 THEN cs[1] ELSE cs[1] \o <<",">> \o Join(Tail(cs))

\* the string is a key of STT_SERVICES
IsKey(s) == Len(s) = 1 /\ s[1] \in DOMAIN STT_SERVICES

\* a parse_service_name that keeps the surrounding blanks
parse_service_name_unstripped(name) ==
    LET name_lower == LowerStr(name)
    IN  IF ~IsKey(name_lower)
            THEN [ret |-> None, exc |-> "ValueError: Unknown service"]
        ELSE IF name_lower[1] \notin ServiceName
            THEN [ret |-> None, exc |-> "ValueError: not a valid ServiceName"]
        ELSE [ret |-> name_lower[1], exc |-> ""]

\* services.py lines 565-582
parse_service_name(name) ==
    LET name_lower == LowerStr(Strip(name))
    IN  IF ~IsKey(name_lower)
            THEN [ret |-> None, exc |-> "ValueError: Unknown service"]
        ELSE IF name_lower[1] \notin ServiceName
            THEN [ret |-> None, exc |-> "ValueError: not a valid ServiceName"]
        ELSE [ret |-> name_lower[1], exc |-> ""]

\* services.py line 593
IsAll(services_arg) == LowerStr(services_arg) = <<"all">>

\* services.py lines 585-596
parse_services_arg(cfg, services_arg) ==
    LET parts == Split(services_arg)
        parsed == [k \in 1..Len(parts) |-> parse_service_name(parts[k])]
        failing == {k \in 1..Len(parts) : parsed[k].exc # ""}
        first == CHOOSE k \in failing : \A j \in failing : k <= j
    IN  IF IsAll(services_arg)
            THEN [ret |-> get_available_services(cfg), exc |-> ""]
        ELSE IF failing # {}
            THEN [ret |-> None, exc |-> parsed[first].exc]
        ELSE [ret |-> [k \in 1..Len(parts) |-> parsed[k].ret], exc |-> ""]

\* ------------------------------------------------------------ the API calls
\* names handed to the registry lookups
NameInputs == ServiceName \cup {"nope", "AWS", "deepgram_flux"}

Sessions == {None, "session"}

ParseWords == {"aws", "AWS", "whisper", "Whisper", "elevenlabs_http", "nope",
               "deepgram_flux", "all", "ALL"}

Blanks == {<<>>, <<" ">>}

\* strings handed to parse_service_name
RawNames ==
    {l \o <<w>> \o t : l \in Blanks, t \in Blanks, w \in ParseWords}
        \cup {<<>>, <<" ">>, <<"aws", " ", "fal">>}

ArgNames == {<<"aws">>, <<" ", "Whisper", " ">>, <<"nope">>, <<"all">>, <<"ALL">>}

\* strings handed to parse_services_arg: up to MaxComponents names joined by commas
ArgInputs ==
    {Join(cs) : cs \in UNION {[1..n -> ArgNames] : n \in 1..MaxComponents}}
        \cup {<<>>, <<"all", " ">>}

Call(op, arg, o) ==
    [op |-> op, arg |-> arg, ret |-> o.ret, exc |-> o.exc, detail |-> o.detail,
     factory_calls |-> o.factory_calls, factory_args |-> o.factory_args]

Plain(r, e) == Outcome(r, e, "", 0, <<>>, FALSE)

\* no call is in progress: the caller makes one call at a time
Idle == call.op = "none"

\* the call ran get_config(): _config and the instance count after it
Touch(touched) ==
    LET g == get_config(_config, created)
    IN  IF touched
            THEN /\ g.created <= MaxInstances
                 /\ _config' = g.config
                 /\ created' = g.created
            ELSE UNCHANGED <<_config, created>>

\* config.py lines 93-98
GetConfig ==
    /\ Idle
    /\ Touch(TRUE)
    /\ call' = Call("get_config", <<>>,
                    Plain(get_config(_config, created).config.id, ""))
    /\ UNCHANGED <<environ, dotenv>>
    /\ UNCHANGED vars

\* config.py lines 101-104
ResetConfig ==
    /\ Idle
    /\ _config' = NoConfig
    /\ call' = Call("reset_config", <<>>, Plain(None, ""))
    /\ UNCHANGED <<environ, dotenv, created>>
    /\ UNCHANGED vars

\* services.py lines 453-457
GetServiceDefinition ==
    \E name \in NameInputs :
        /\ Idle
        /\ call' = Call("get_service_definition", name,
                        IF name \notin DOMAIN STT_SERVICES
                            THEN Plain(None, "ValueError: Unknown service")
                            ELSE Plain(STT_SERVICES[name], ""))
        /\ UNCHANGED <<environ, dotenv, _config, created>>
        /\ UNCHANGED vars

\* services.py lines 483-488
IsServiceAvailable ==
    \E name \in NameInputs :
        LET cfg == get_config(_config, created).config
        IN  /\ Idle
            /\ Touch(name \in DOMAIN STT_SERVICES
                        /\ STT_SERVICES[name].required_env_vars # <<>>)
            /\ call' = Call("is_service_available", name,
                            Plain(is_service_available(cfg, name), ""))
            /\ UNCHANGED <<environ, dotenv>>
            /\ UNCHANGED vars

\* services.py lines 491-521
CreateSttService ==
    \E service_name \in ServiceName, aiohttp_session \in Sessions :
        LET cfg == get_config(_config, created).config
            o == create_stt_service(cfg, service_name, aiohttp_session)
        IN  /\ Idle
            /\ Touch(o.touched)
            /\ call' = Call("create_stt_service",
                            [service_name |-> service_name,
                             aiohttp_session |-> aiohttp_session], o)
            /\ UNCHANGED <<environ, dotenv>>
            /\ UNCHANGED vars

\* services.py lines 524-546
GetAvailableServices ==
    LET cfg == get_config(_config, created).config
    IN  /\ Idle
        /\ Touch(TRUE)
        /\ call' = Call("get_available_services", <<>>,
                        Plain(get_available_services(cfg), ""))
        /\ UNCHANGED <<environ, dotenv>>
        /\ UNCHANGED vars

\* services.py lines 565-582
ParseServiceName ==
    \E name \in RawNames :
        /\ Idle
        /\ call' = Call("parse_service_name", name,
                        Plain(parse_service_name(name).ret,
                              parse_service_name(name).exc))
        /\ UNCHANGED <<environ, dotenv, _config, created>>
        /\ UNCHANGED vars

\* services.py lines 585-596
ParseServicesArg ==
    \E services_arg \in ArgInputs :
        LET cfg == get_config(_config, created).config
            o == parse_services_arg(cfg, services_arg)
        IN  /\ Idle
            /\ Touch(IsAll(services_arg))
            /\ call' = Call("parse_services_arg", services_arg, Plain(o.ret, o.exc))
            /\ UNCHANGED <<environ, dotenv>>
            /\ UNCHANGED vars

\* the call returns: its outcome is the caller's, the module keeps _config only
Return ==
    /\ ~Idle
    /\ call' = NoCall
    /\ UNCHANGED <<environ, dotenv, _config, created>>
    /\ UNCHANGED vars

\* the variables one registry entry names
EnvVarsOf(name) == Range(STT_SERVICES[name].required_env_vars)

\* a process started with some of one service's variables in its environment
\* and in its .env file; nothing in the program changes either afterwards
InitSvc ==
    /\ \E name \in DOMAIN STT_SERVICES :
         /\ environ \in UNION {[D -> {"", "env-value"}] : D \in SUBSET EnvVarsOf(name)}
         /\ dotenv \in UNION {[D -> {"file-value"}] : D \in SUBSET EnvVarsOf(name)}
    /\ _config = NoConfig
    /\ created = 0
    /\ call = NoCall
    /\ text_normalizer = "Whisper"
    /\ data = <<>>
    /\ pc = "start"
    /\ err = "none"
    /\ tn = "unset"
    /\ i = 0
    /\ ncor = 0 /\ nsub = 0 /\ nins = 0 /\ ndel = 0
    /\ ref = <<>> /\ hyp = <<>>
    /\ result = NoResult
    /\ output_str = <<>>
    /\ outputfile = NoFile

NextSvc ==
    \/ GetConfig
    \/ ResetConfig
    \/ GetServiceDefinition
    \/ IsServiceAvailable
    \/ CreateSttService
    \/ GetAvailableServices
    \/ ParseServiceName
    \/ ParseServicesArg
    \/ Return

SpecSvc == InitSvc /\ [][NextSvc]_<<vars, svars>>

\* ------------------------------------------------------------------ helpers
\* the normalized word sequences of row k
RefWords(k) == ApplyTn(tn, data[k].target)
HypWords(k) == ApplyTn(tn, data[k].prediction)

Min3(x, y, z) == IF x <= y /\ x <= z THEN x ELSE IF y <= z THEN y ELSE z

RECURSIVE Cost(_, _, _, _)
\* cost[r][h] of the unit-cost edit-distance recurrence over ref[1..r], hyp[1..h]
Cost(rs, hs, r, h) ==
    IF r = 0 THEN h
    ELSE IF h = 0 THEN r
    ELSE IF rs[r] = hs[h] THEN Cost(rs, hs, r - 1, h - 1)
    ELSE 1 + Min3(Cost(rs, hs, r - 1, h - 1),
                  Cost(rs, hs, r - 1, h),
                  Cost(rs, hs, r, h - 1))

\* the counts a per-sample block shows
SampleCounts(b) ==
    [hits |-> Count(b.vis, "equal"), substitutions |-> Count(b.vis, "substitute"),
     insertions |-> Count(b.vis, "insert"), deletions |-> Count(b.vis, "delete")]

\* a partial sum, folded like a result
AsResult(c) ==
    [hits |-> c.ncor, substitutions |-> c.nsub,
     insertions |-> c.nins, deletions |-> c.ndel]

RECURSIVE FoldSeq(_, _)
FoldSeq(c, rs) == IF rs = <<>> THEN c ELSE FoldSeq(Fold(c, Head(rs)), Tail(rs))

RECURSIVE SumRefWords(_)
SumRefWords(k) == IF k = 0 THEN 0 ELSE SumRefWords(k - 1) + Len(RefWords(k))

RECURSIVE SumErrors(_)
SumErrors(k) == IF k = 0 THEN 0 ELSE SumErrors(k - 1) + Errors(output_str[k].vis)

\* ------------------------------------------------------------------- claims
\* C1: the alignment result of the row just processed satisfies
\* hits + substitutions + deletions = length of the reference and
\* hits + substitutions + insertions = length of the hypothesis.
C1_CountsMatchLengths ==
    result.set =>
        /\ result.hits + result.substitutions + result.deletions = Len(RefWords(i))
        /\ result.hits + result.substitutions + result.insertions = Len(HypWords(i))

\* a result with a substitution and an insertion
C1_Witness ==
    /\ result.set
    /\ result.substitutions > 0
    /\ result.insertions > 0

\* C2: substitutions + insertions + deletions of the returned alignment equals
\* cost[R][H] of the unit-cost edit-distance recurrence, and no alignment of
\* the pair has fewer errors.
C2_ErrorsAreEditDistance ==
    result.set =>
        LET e == result.substitutions + result.insertions + result.deletions
        IN /\ e = Cost(RefWords(i), HypWords(i), Len(RefWords(i)), Len(HypWords(i)))
           /\ \A a \in Aligns(RefWords(i), HypWords(i)) : Errors(a) >= e

\* a pair of two-word sequences at distance 2 with several optimal alignments
C2_Witness ==
    /\ result.set
    /\ Len(RefWords(i)) = 2
    /\ Len(HypWords(i)) = 2
    /\ result.substitutions + result.insertions + result.deletions = 2
    /\ Cardinality(MinAligns(RefWords(i), HypWords(i))) > 1

\* C4: no sample ends the run with an exception, and the WER line of every
\* per-sample block is (S + I + D) / R for R > 0 words of reference and 0 for
\* R = 0.
C4_SampleWerLine ==
    /\ \A k \in 1..Len(data) :
         (tn # "unset" /\ Len(RefWords(k)) = 0) => ~(pc = "error" /\ i = k - 1)
    /\ \A k \in 1..i :
         output_str[k].wer =
            IF Len(RefWords(k)) > 0
              THEN FormatPercent([num |-> Errors(output_str[k].vis),
                                  den |-> Len(RefWords(k))])
              ELSE 0

\* C5: once the normalizer is selected the run never ends in an error: every
\* row is aligned and the loop goes on to the next one.
C5_AlignmentNeverFails ==
    tn # "unset" => (pc # "error" /\ err = "none")

\* C6: the aggregate block reports the sum of the samples' reference word
\* counts and the pooled WER (total S + I + D) / (total reference words), 0
\* when there is no reference word.
C6_AggregateBlock ==
    pc = "done" =>
        LET n == Len(data)
            total == SumRefWords(n)
        IN /\ outputfile[n + 2] = [kind |-> "wordcount", n |-> total]
           /\ outputfile[n + 3] =
                [kind |-> "wer",
                 wer |-> IF total > 0
                           THEN FormatPercent([num |-> SumErrors(n), den |-> total])
                           ELSE 0]

\* two samples folded, with hits, insertions and deletions among them
C6_Witness ==
    /\ pc = "done"
    /\ Len(data) = 2
    /\ ncor > 0
    /\ nins > 0
    /\ ndel > 0

\* C7: the report holds one per-sample block per row, the k-th block is the
\* k-th row's, and the "(Average)" block comes once, after all of them.
C7_ReportOrder ==
    /\ pc \in {"loop", "done"} =>
         /\ i <= Len(data)
         /\ Len(output_str) = IF pc = "done" THEN i + 3 ELSE i
         /\ \A k \in 1..i :
              /\ output_str[k].kind = "sample"
              /\ output_str[k].file_path = data[k].file_path
              /\ output_str[k].vis \in Aligns(RefWords(k), HypWords(k))
    /\ pc = "done" =>
         /\ i = Len(data)
         /\ outputfile = output_str
         /\ outputfile[i + 1] = [kind |-> "average"]
         /\ Cardinality({k \in DOMAIN outputfile : outputfile[k].kind = "average"}) = 1

\* a finished report over two rows whose alignments differ
C7_Witness ==
    /\ pc = "done"
    /\ Len(data) = 2
    /\ outputfile[1].vis # outputfile[2].vis

\* C8: the aggregate counters, the reported word count and the pooled WER are
\* the same for every permutation of the per-sample results and for every
\* split of them into two partial sums.
C8_FoldOrderIndependent ==
    pc \in {"loop", "done"} =>
        LET rs == [k \in 1..i |-> SampleCounts(output_str[k])]
        IN /\ \A p \in Permutations(1..i) :
                LET c == FoldSeq(ZeroCounters, [k \in 1..i |-> rs[p[k]]])
                IN /\ c = Counters
                   /\ pc = "done" =>
                        /\ outputfile[i + 2].n = WordCount(c)
                        /\ outputfile[i + 3].wer = FormatPercent(PooledWer(c))
           /\ \A j \in 0..i :
                Fold(FoldSeq(ZeroCounters, SubSeq(rs, 1, j)),
                     AsResult(FoldSeq(ZeroCounters, SubSeq(rs, j + 1, i)))) = Counters

\* two samples with different counts were folded
C8_Witness ==
    /\ pc = "done"
    /\ i = 2
    /\ SampleCounts(output_str[1]) # SampleCounts(output_str[2])

C10_UnknownPolicyFailsFast ==
    (text_normalizer \notin Policies /\ pc # "start") =>
        /\ pc = "error"
        /\ tn = "unset"
        /\ i = 0
        /\ ~result.set
        /\ Counters = ZeroCounters
        /\ output_str = <<>>
        /\ outputfile = NoFile

\* the run failed on an unknown policy with rows waiting
C10_Witness ==
    /\ pc = "error"
    /\ text_normalizer = "Other"
    /\ Len(data) > 0

\* C11: the normalizer is the one selected for the run's policy, it is the
\* same for the whole run, and the reference and the hypothesis of every row
\* are both normalized with it.
C11_OnePolicyBothSides ==
    /\ tn \in {"unset", text_normalizer}
    /\ pc \in {"loop", "done"} => tn = text_normalizer
    /\ (pc \in {"loop", "done"} /\ i >= 1) =>
         /\ ref = ApplyTn(text_normalizer, data[i].target)
         /\ hyp = ApplyTn(text_normalizer, data[i].prediction)
    /\ (pc = "error" /\ tn # "unset" /\ ~data[i + 1].short) =>
         /\ ref = ApplyTn(text_normalizer, data[i + 1].target)
         /\ hyp = ApplyTn(text_normalizer, data[i + 1].prediction)

\* two rows compared under the Whisper policy, which changed a prediction
C11_Witness ==
    /\ pc = "done"
    /\ i = 2
    /\ text_normalizer = "Whisper"
    /\ \E k \in 1..2 : data[k].prediction # HypWords(k) /\ data[k].target = RefWords(k)

\* C12: when the loop reaches a row that lacks a required field, the run ends
\* at once in an error, and that row adds no block and nothing to the counters.
C12_MissingFieldSignalled ==
    [][(pc = "loop" /\ i < Len(data) /\ data[i + 1].short)
         => /\ pc' = "error"
            /\ err' = "IndexError: list index out of range"
            /\ i' = i
            /\ Counters' = Counters
            /\ output_str' = output_str
            /\ outputfile' = NoFile]_vars

\* the run failed on a short second row after the first row was processed
C12_Witness ==
    /\ pc = "error"
    /\ err = "IndexError: list index out of range"
    /\ i = 1
    /\ Len(output_str) = 1
    /\ data[2].short

\* C13: a row whose normalized reference and hypothesis are the same sequence
\* is aligned without an error, with one hit per word, no substitution,
\* insertion or deletion, and a WER line of 0.
C13_SelfAlignment ==
    \A k \in 1..Len(data) :
        (tn # "unset" /\ ~data[k].short /\ RefWords(k) = HypWords(k)) =>
            /\ ~(pc = "error" /\ i = k - 1)
            /\ k <= i =>
                 /\ SampleCounts(output_str[k]) =
                      [hits |-> Len(RefWords(k)), substitutions |-> 0,
                       insertions |-> 0, deletions |-> 0]
                 /\ output_str[k].wer = 0

\* C14: when the hypothesis is the non-empty reference (R words) followed by
\* one more word, the alignment has R hits, 1 insertion, no substitution and no
\* deletion, and the WER line is 1/R (50.0% for R = 2).
C14_OneExtraWord ==
    \A k \in 1..i :
        LET R == Len(RefWords(k))
        IN (pc \in {"loop", "done"} /\ R >= 1 /\ Len(HypWords(k)) = R + 1
              /\ SubSeq(HypWords(k), 1, R) = RefWords(k)) =>
            /\ SampleCounts(output_str[k]) =
                 [hits |-> R, substitutions |-> 0, insertions |-> 1, deletions |-> 0]
            /\ 2 * (output_str[k].wer * R - 1000) <= R
            /\ 2 * (1000 - output_str[k].wer * R) <= R
            /\ R = 2 => output_str[k].wer = 500

\* "a A" against "a A a": two hits, one insertion, 50.0%
C14_Witness ==
    /\ pc = "done"
    /\ i = 1
    /\ Len(RefWords(1)) = 2
    /\ Len(HypWords(1)) = 3
    /\ SubSeq(HypWords(1), 1, 2) = RefWords(1)
    /\ output_str[1].wer = 500


\* the configuration the finished call worked with
CallConfig == get_config(_config, created).config

ValueErrors == {"ValueError: Unknown service", "ValueError: not a valid ServiceName",
                "ValueError: requires an aiohttp session",
                "ValueError: environment variable not set"}

\* the name a raw string stands for: blanks around it dropped, letters lowered
Canon(s) == LowerStr(Strip(s))

\* C15: create_stt_service raises ValueError without calling the factory when
\* the service needs an aiohttp session and none was given; in every other case
\* it calls the factory exactly once, with the session as its only argument
\* when the service needs one and with no argument otherwise.
C15_SessionCheckedBeforeFactory ==
    call.op = "create_stt_service" =>
        LET needs == STT_SERVICES[call.arg.service_name].needs_aiohttp
        IN  IF needs /\ call.arg.aiohttp_session = None
                THEN /\ call.exc = "ValueError: requires an aiohttp session"
                     /\ call.factory_calls = 0
                ELSE /\ call.factory_calls = 1
                     /\ call.factory_args =
                          IF needs THEN <<call.arg.aiohttp_session>> ELSE <<>>

\* elevenlabs_http without a session: the error, and no factory call
C15_Witness ==
    /\ call.op = "create_stt_service"
    /\ call.arg.service_name = "elevenlabs_http"
    /\ call.arg.aiohttp_session = None
    /\ call.exc = "ValueError: requires an aiohttp session"
    /\ call.factory_calls = 0

\* C16: is_service_available(name) never raises and is True exactly when name
\* is a key of the registry and each of its required variables has a non-empty
\* value; so it is False for an unregistered name and True for whisper, which
\* requires none.
C16_AvailableIffAllSet ==
    call.op = "is_service_available" =>
        /\ call.exc = ""
        /\ call.ret = (/\ call.arg \in DOMAIN STT_SERVICES
                       /\ \A v \in EnvVarsOf(call.arg) : Effective(v) # "")
        /\ call.arg \notin DOMAIN STT_SERVICES => call.ret = FALSE
        /\ call.arg = "whisper" => call.ret = TRUE

\* aws available with its region given by the .env file only
C16_Witness ==
    /\ call.op = "is_service_available"
    /\ call.arg = "aws"
    /\ call.ret = TRUE
    /\ "AWS_REGION" \notin DOMAIN environ

\* C17 as stated: parse_service_name returns the registered name that the
\* stripped, lowered input spells and raises ValueError for every other input;
\* parse_services_arg returns one name per comma-separated component, in input
\* order, and raises when a component is unknown.
C17_ParseEveryComponent ==
    /\ call.op = "parse_service_name" =>
         IF IsKey(Canon(call.arg))
             THEN call.exc = "" /\ call.ret = Canon(call.arg)[1]
                  /\ call.ret \in ServiceName
             ELSE call.exc \in ValueErrors
    /\ call.op = "parse_services_arg" =>
         LET parts == Split(call.arg)
         IN  IF \A k \in 1..Len(parts) : IsKey(Canon(parts[k]))
                 THEN /\ call.exc = ""
                      /\ call.ret = [k \in 1..Len(parts) |-> Canon(parts[k])[1]]
                 ELSE call.exc \in ValueErrors

\* C17: parse_service_name returns the registered name that the stripped,
\* lowered input spells and raises ValueError for every other input; unless the
\* whole argument is the word "all" in any letter case, parse_services_arg
\* returns one name per comma-separated component, in input order, and raises
\* when a component is unknown; for "all" it returns the available services and
\* does not raise.
C17_ParseEveryComponentUnlessAll ==
    /\ call.op = "parse_service_name" =>
         IF IsKey(Canon(call.arg))
             THEN call.exc = "" /\ call.ret = Canon(call.arg)[1]
                  /\ call.ret \in ServiceName
             ELSE call.exc \in ValueErrors
    /\ (call.op = "parse_services_arg" /\ LowerStr(call.arg) # <<"all">>) =>
         LET parts == Split(call.arg)
         IN  IF \A k \in 1..Len(parts) : IsKey(Canon(parts[k]))
                 THEN /\ call.exc = ""
                      /\ call.ret = [k \in 1..Len(parts) |-> Canon(parts[k])[1]]
                 ELSE call.exc \in ValueErrors
    /\ (call.op = "parse_services_arg" /\ LowerStr(call.arg) = <<"all">>) =>
         /\ call.exc = ""
         /\ call.ret = SelectSeq(ServiceKeys,
                                 LAMBDA n : is_service_available(CallConfig, n))

\* " Whisper ,aws" parsed into whisper, aws
C17_Witness ==
    /\ call.op = "parse_services_arg"
    /\ call.arg = <<" ", "Whisper", " ", ",", "aws">>
    /\ call.exc = ""
    /\ call.ret = <<"whisper", "aws">>

\* C18: a get_config call while an instance exists returns that instance and
\* constructs none; no call other than reset_config replaces or drops the
\* instance, so an epoch between two resets sees at most one; a get_config call
\* while there is none (at the start or after a reset) constructs an instance
\* that was never returned before and returns it.
C18_OneInstancePerEpoch ==
    [][/\ (Idle /\ call'.op = "get_config") =>
            IF ~IsNone(_config)
                THEN /\ call'.ret = _config.id
                     /\ _config' = _config
                     /\ created' = created
                ELSE /\ call'.ret = created + 1
                     /\ _config'.id = created + 1
                     /\ created' = created + 1
       /\ (~IsNone(_config) /\ call'.op # "reset_config") => _config' = _config
       /\ created' # created => (IsNone(_config) /\ created' = created + 1)
       /\ call'.op = "reset_config" => IsNone(_config')]_<<vars, svars>>

\* the second instance, returned by the first get_config after a reset
C18_Witness ==
    /\ call.op = "get_config"
    /\ call.ret = 2
    /\ _config.id = 2

\* C19: every variable a factory reads with _get_env is one of its entry's
\* required variables, and creating a service that is_service_available
\* reports as available never fails with "environment variable not set".
C19_AvailableNeverMissesEnv ==
    /\ \A n \in DOMAIN STT_SERVICES :
         Range(FactoryGetEnv[STT_SERVICES[n].factory]) \subseteq EnvVarsOf(n)
    /\ (call.op = "create_stt_service"
          /\ is_service_available(CallConfig, call.arg.service_name)) =>
         call.exc # "ValueError: environment variable not set"

\* deepgram created with its key given by the .env file only
C19_Witness ==
    /\ call.op = "create_stt_service"
    /\ call.arg.service_name = "deepgram"
    /\ "DEEPGRAM_API_KEY" \notin DOMAIN environ
    /\ is_service_available(CallConfig, "deepgram")
    /\ call.exc = ""
    /\ call.ret = "create_deepgram"

\* C20: the keys of the registry are the values of the ServiceName enum; so
\* get_service_definition succeeds for every enum value, create_stt_service
\* never meets an unknown service, parse_service_name never fails on a string
\* that spells a registry key, and get_available_services drops no available
\* registry key for want of an enum member.
C20_RegistryMatchesEnum ==
    /\ DOMAIN STT_SERVICES = ServiceName
    /\ (call.op = "get_service_definition" /\ call.arg \in ServiceName) =>
         call.exc = "" /\ call.ret = STT_SERVICES[call.arg]
    /\ call.op = "create_stt_service" => call.exc # "ValueError: Unknown service"
    /\ (call.op = "parse_service_name" /\ IsKey(Canon(call.arg))) => call.exc = ""
    /\ call.op = "get_available_services" =>
         Range(call.ret) =
            {n \in DOMAIN STT_SERVICES : is_service_available(CallConfig, n)}

\* elevenlabs, elevenlabs_http and whisper listed as available
C20_Witness ==
    /\ call.op = "get_available_services"
    /\ call.ret = <<"elevenlabs", "elevenlabs_http", "whisper">>

====
